---------------------------- MODULE Spec2Model ----------------------------
(***************************************************************************)
(* Tool-invocation core of zSearch (lib/mcp-client.ts): the timeout guard  *)
(* withTimeout, the stdio session McpClientWrapper, the dispatcher         *)
(* callZRead, the retry policy withRetry and the HTTP invoker callHttpTool. *)
(*                                                                         *)
(* Five specifications share the module:                                   *)
(*   Spec         callZRead calls, each on the session it creates          *)
(*   SpecSession  one McpClientWrapper driven by an arbitrary caller       *)
(*   SpecRetry    withRetry(fn, retryCount)                                *)
(*   SpecTimeout  withTimeout(promise, timeoutMs, operation)               *)
(*   SpecHttp     callHttpTool(options)                                    *)
(*                                                                         *)
(* JavaScript runs one task at a time: an action is the synchronous run of *)
(* a function up to its next await, or the continuation that an awaited    *)
(* promise's settlement resumes.                                           *)
(***************************************************************************)
EXTENDS Integers, Sequences, FiniteSets, TLC

VARIABLES
    \* ---- withRetry
    retryCount,   \* parameter retryCount
    attempt,      \* loop variable attempt
    lastError,    \* local lastError (NullValue = null)
    rpc,          \* position: "loop" | "awaitFn" | "sleeping" | "resolved" | "rejected"
    calls,        \* number of invocations of fn so far
    running,      \* invocations of fn not yet settled
    delays,       \* the setTimeout delays awaited so far, in order
    outcomes,     \* the outcome of every settled invocation of fn, in order
    rresult,      \* outcome of the promise withRetry returned
    \* ---- withTimeout
    wt,           \* the race: operation, timeoutMs, timer, out
    wop,          \* outcome of the wrapped promise
    \* ---- McpClientWrapper, per session
    client,       \* this.client: 0 = null, else the id of the Client object
    transport,    \* this.transport: 0 = null, else the id of the transport
    connected,    \* this.connected
    transports,   \* the live StdioClientTransports: owner, handshake, close
    requests,     \* the protocol requests awaiting their response
    conn,         \* the outstanding connect() call of the session
    call,         \* the outstanding listTools()/callTool() call of the session
    disc,         \* the outstanding disconnect() call of the session
    ops,          \* number of method invocations the arbitrary caller made
    \* ---- callZRead, per call (a call is named after its session)
    zpc,          \* position of callZRead
    zmethod,      \* parameter method
    zresult,      \* local result (the value callTool resolved with)
    zout,         \* outcome of the promise callZRead returned
    \* ---- callHttpTool
    hpc,          \* position: "idle" | "init" | "fetching" | "reading" | "done"
    hbody,        \* options.body: NullValue when absent, else the body
    hreq,         \* the request given to fetch: method and body
    hresp,        \* the Response fetch resolved with (NullValue before)
    hpath,        \* branch taken on the text: "none" | "sse" | "json"
    hout,         \* outcome of the promise callHttpTool returned
    fetches,      \* number of calls of fetch
    reads         \* number of calls of response.text()

retryVars == <<retryCount, attempt, lastError, rpc, calls, running, delays,
               outcomes, rresult>>
timeoutVars == <<wt, wop>>
sessionVars == <<client, transport, connected, transports, requests,
                 conn, call, disc>>
zreadVars == <<zpc, zmethod, zresult, zout>>
callerVars == <<ops>>
httpVars == <<hpc, hbody, hreq, hresp, hpath, hout, fetches, reads>>
vars == <<retryVars, timeoutVars, sessionVars, zreadVars, callerVars,
          httpVars>>

---------------------------------------------------------------------------
(* Promise outcomes and error values *)

NullValue == [kind |-> "null"]
Pending == [kind |-> "pending"]
Resolved(v) == [kind |-> "resolved", val |-> v]
Rejected(e) == [kind |-> "rejected", err |-> e]

Min(a, b) == IF a < b THEN a ELSE b

\* new Error(`Operation '${operation}' timed out after ${timeoutMs}ms`)
TimeoutError(operation, timeoutMs) ==
    [kind |-> "Timeout", operation |-> operation, timeoutMs |-> timeoutMs]

\* new Error('Not connected to MCP server')
NotConnectedError == [kind |-> "NotConnected"]

\* new Error(`HTTP ${response.status}: ${response.statusText}`)
HttpError(status, statusText) ==
    [kind |-> "HttpError", status |-> status, statusText |-> statusText]

MCP_CONNECTION_TIMEOUT == 30000
MCP_TOOL_TIMEOUT == 120000

---------------------------------------------------------------------------
(* withTimeout: Promise.race([promise, timer]) *)

\* Faulty variant: the promise is awaited without a timer.
withTimeoutNoTimer(timeoutMs, operation) ==
    [operation |-> operation, timeoutMs |-> timeoutMs,
     timer |-> "none", out |-> Pending]

\* The race as created: the timer is armed, nothing has settled.
withTimeout(timeoutMs, operation) ==
    [operation |-> operation, timeoutMs |-> timeoutMs,
     timer |-> "armed", out |-> Pending]

\* Faulty variant: the last settlement wins instead of the first.
RaceOnPromiseLastWins(w, o) == [w EXCEPT !.out = o]

\* The wrapped promise settles with outcome o: the race takes it unless the
\* race has settled already.
RaceOnPromise(w, o) ==
    IF w.out = Pending THEN [w EXCEPT !.out = o] ELSE w

\* Faulty variant: the timeout error loses its operation label.
RaceOnTimerNoLabel(w) ==
    [w EXCEPT !.timer = "fired",
              !.out = IF w.out = Pending
                      THEN Rejected(TimeoutError(<<>>, w.timeoutMs))
                      ELSE w.out]

\* Faulty variant: the timer's rejection replaces an outcome already taken.
RaceOnTimerOverrides(w) ==
    [w EXCEPT !.timer = "fired",
              !.out = Rejected(TimeoutError(w.operation, w.timeoutMs))]

\* The timer fires: reject(new Error(...)), which settles the race unless it
\* has settled already. Nothing is done to the wrapped promise.
RaceOnTimer(w) ==
    [w EXCEPT !.timer = "fired",
              !.out = IF w.out = Pending
                      THEN Rejected(TimeoutError(w.operation, w.timeoutMs))
                      ELSE w.out]

---------------------------------------------------------------------------
(* McpClientWrapper *)

ZSessions == {"z1", "z2"}       \* sessions created by callZRead calls
FreeSessions == {"u1"}          \* a session driven by an arbitrary caller
Sessions == ZSessions \cup FreeSessions

MaxOps == 4          \* method invocations the arbitrary caller makes

ServerTypes == {"Vision", "Zread", "Search", "Read", "Other"}
Methods == {"search_doc", "get_repo_structure"}
Contents == {"c1"}
IsErrorFlags == {"true", "false", "undefined"}

\* What the server answers to tools/call and tools/list.
CallResponses ==
    [content : Contents, isError : IsErrorFlags, meta : {"m"}]
ListResponses ==
    {[tools |-> <<[name |-> "t1", description |-> "d1",
                   inputSchema |-> "s1", annotations |-> "a1"]>>]}
RemoteError == [kind |-> "RemoteError"]
HandshakeError == [kind |-> "HandshakeError"]
CloseError == [kind |-> "CloseError"]

\* Faulty variant: every server type is given the stdio command.
getServerConfigAnyType(serverType) ==
    [kind |-> "config", command |-> "npx",
     args |-> <<"-y", "@z_ai/mcp-server">>]

\* getServerConfig: the stdio command of a server type, or the error thrown.
getServerConfig(serverType) ==
    CASE serverType \in {"Vision", "Zread"} ->
            [kind |-> "config", command |-> "npx",
             args |-> <<"-y", "@z_ai/mcp-server">>]
      [] serverType = "Search" ->
            [kind |-> "throw",
             err |-> [kind |-> "Error",
                      message |-> "Search is HTTP-based, not stdio"]]
      [] serverType = "Read" ->
            [kind |-> "throw",
             err |-> [kind |-> "Error",
                      message |-> "Read is HTTP-based, not stdio"]]
      [] OTHER ->
            [kind |-> "throw",
             err |-> [kind |-> "Error", message |-> "Unknown server type"]]

ConnectOperation(serverType) == <<"MCP server connection", serverType>>
ListOperation == <<"list tools">>
CallOperation(name) == <<"tool call", name>>

NoRace == [operation |-> <<>>, timeoutMs |-> 0, timer |-> "none",
           out |-> Pending]
IdleSlot == [pc |-> "idle", ref |-> 0, w |-> NoRace, out |-> Pending,
             method |-> "none"]
Settled(slot, o) == [slot EXCEPT !.pc = "settled", !.out = o]

(* The objects of the heap. A transport is kept while its subprocess may   *)
(* still run (it is not closed) or its handshake is still pending; a       *)
(* request is kept while it awaits its response. Ids of dropped objects    *)
(* are reused once nothing refers to them.                                 *)

Live(t) == t \in DOMAIN transports
Open(t) == Live(t) /\ ~transports[t].closed
OwnedTransports(s) == {t \in DOMAIN transports : transports[t].owner = s}
OpenTransports(s) == {t \in OwnedTransports(s) : ~transports[t].closed}
InFlight(s) == {r \in DOMAIN requests : requests[r].owner = s}

Fresh(used) == CHOOSE i \in 1..(Cardinality(used) + 1) : i \notin used

\* Faulty variant: one Client and transport object for every connect.
SharedTransport == Fresh({})

FreshTransport ==
    Fresh(DOMAIN transports
          \cup {client[s] : s \in Sessions} \cup {transport[s] : s \in Sessions}
          \cup {conn[s].ref : s \in Sessions} \cup {disc[s].ref : s \in Sessions}
          \cup {requests[r].via : r \in DOMAIN requests})
FreshRequest == Fresh(DOMAIN requests \cup {call[s].ref : s \in Sessions})

With(f, k, v) == [x \in DOMAIN f \cup {k} |-> IF x = k THEN v ELSE f[x]]
Without(f, k) == [x \in DOMAIN f \ {k} |-> f[x]]
\* A closed transport whose handshake has settled is gone.
Collect(f) ==
    [t \in {x \in DOMAIN f : ~(f[x].closed /\ f[x].handshake # "pending")}
        |-> f[t]]

isConnected(s) == connected[s]

\* Faulty variant: the guard forgets the connected flag.
NotConnectedClientOnly(s) == client[s] = 0

\* The guard of listTools and callTool: !this.client || !this.connected
NotConnected(s) == client[s] = 0 \/ ~connected[s]

\* connect(serverType), up to its await: a new Client and a new transport
\* are stored in the fields, and the handshake is raced with the timer.
ConnectStart(s, serverType) ==
    LET config == getServerConfig(serverType)
        tid == FreshTransport
    IN  IF config.kind = "throw"
        THEN /\ conn' = [conn EXCEPT ![s] =
                            Settled([IdleSlot EXCEPT !.method = "connect"],
                                    Rejected(config.err))]
             /\ UNCHANGED <<client, transport, connected, transports,
                            requests, call, disc>>
        ELSE /\ client' = [client EXCEPT ![s] = tid]
             /\ transport' = [transport EXCEPT ![s] = tid]
             /\ transports' = With(transports, tid,
                    [owner |-> s, handshake |-> "pending",
                     closing |-> FALSE, closed |-> FALSE])
             /\ conn' = [conn EXCEPT ![s] =
                    [pc |-> "awaiting", ref |-> tid,
                     w |-> withTimeout(MCP_CONNECTION_TIMEOUT,
                                       ConnectOperation(serverType)),
                     out |-> Pending, method |-> "connect"]]
             /\ UNCHANGED <<connected, requests, call, disc>>

\* Faulty variant: the flag is set whatever the race settled with.
ConnectResumeAlways(s, w) ==
    /\ conn' = [conn EXCEPT ![s] =
                  [@ EXCEPT !.pc = "settled", !.w = w,
                            !.out = IF w.out.kind = "resolved"
                                    THEN Resolved(NullValue) ELSE w.out]]
    /\ connected' = [connected EXCEPT ![s] = TRUE]

\* The continuation of connect once the race w has settled:
\* this.connected = true when it resolved, the error thrown on otherwise.
ConnectResume(s, w) ==
    /\ conn' = [conn EXCEPT ![s] =
                  [@ EXCEPT !.pc = "settled", !.w = w,
                            !.out = IF w.out.kind = "resolved"
                                    THEN Resolved(NullValue) ELSE w.out]]
    /\ connected' = [connected EXCEPT ![s] =
                        IF w.out.kind = "resolved" THEN TRUE ELSE @]

HandshakeResults == {"ok", "failed", "failedClosed"}

\* Faulty variant: a handshake that completes after its connect has
\* settled still marks the session connected.
HandshakeSettlesLate(t, result) ==
    /\ Live(t)
    /\ transports[t].handshake = "pending"
    /\ result = "ok" => ~transports[t].closed
    /\ transports' = Collect([transports EXCEPT
            ![t].handshake = IF result = "ok" THEN "ok" ELSE "failed",
            ![t].closed = IF result = "failedClosed" THEN TRUE ELSE @])
    /\ LET s == transports[t].owner
           o == IF result = "ok" THEN Resolved(NullValue)
                                 ELSE Rejected(HandshakeError)
       IN  IF conn[s].pc = "awaiting" /\ conn[s].ref = t
           THEN ConnectResume(s, RaceOnPromise(conn[s].w, o))
           ELSE /\ connected' = [connected EXCEPT ![s] =
                                    IF result = "ok" THEN TRUE ELSE @]
                /\ UNCHANGED conn
    /\ UNCHANGED <<client, transport, requests, call, disc>>
    /\ UNCHANGED <<retryVars, timeoutVars, zreadVars, callerVars, httpVars>>

\* client.connect(transport) settles: the handshake with the subprocess
\* succeeds or fails, and on failure the library may or may not have closed
\* the transport itself. It resumes the connect that awaits it, if any.
HandshakeSettles(t, result) ==
    /\ Live(t)
    /\ transports[t].handshake = "pending"
    /\ result = "ok" => ~transports[t].closed
    /\ transports' = Collect([transports EXCEPT
            ![t].handshake = IF result = "ok" THEN "ok" ELSE "failed",
            ![t].closed = IF result = "failedClosed" THEN TRUE ELSE @])
    /\ LET s == transports[t].owner
           o == IF result = "ok" THEN Resolved(NullValue)
                                 ELSE Rejected(HandshakeError)
       IN  IF conn[s].pc = "awaiting" /\ conn[s].ref = t
           THEN ConnectResume(s, RaceOnPromise(conn[s].w, o))
           ELSE UNCHANGED <<conn, connected>>
    /\ UNCHANGED <<client, transport, requests, call, disc>>
    /\ UNCHANGED <<retryVars, timeoutVars, zreadVars, callerVars, httpVars>>

\* The connection timer fires while connect awaits the race.
ConnectTimerFires(s) ==
    /\ conn[s].pc = "awaiting"
    /\ conn[s].w.timer = "armed"
    /\ ConnectResume(s, RaceOnTimer(conn[s].w))
    /\ UNCHANGED <<client, transport, transports, requests, call, disc>>
    /\ UNCHANGED <<retryVars, timeoutVars, zreadVars, callerVars, httpVars>>

\* What listTools and callTool return for the response they awaited.
ListResult(response) ==
    [i \in 1..Len(response.tools) |->
        [name |-> response.tools[i].name,
         description |-> response.tools[i].description,
         inputSchema |-> response.tools[i].inputSchema]]
\* Faulty variant: a missing isError is reported as false.
CallResultDefaultsFlag(response) ==
    [content |-> response.content,
     isError |-> IF response.isError = "undefined" THEN "false"
                 ELSE response.isError]

CallResult(response) ==
    [content |-> response.content, isError |-> response.isError]

\* listTools() / callTool(name, args), up to the await: the guard, then the
\* protocol request sent through this.client and raced with the timer.
CallStart(s, method, name) ==
    IF NotConnected(s)
    THEN /\ call' = [call EXCEPT ![s] =
                        Settled([IdleSlot EXCEPT !.method = method],
                                Rejected(NotConnectedError))]
         /\ UNCHANGED <<client, transport, connected, transports, requests,
                        conn, disc>>
    ELSE /\ requests' = With(requests, FreshRequest,
                [owner |-> s, via |-> client[s], method |-> method])
         /\ call' = [call EXCEPT ![s] =
                [pc |-> "awaiting", ref |-> FreshRequest,
                 w |-> withTimeout(MCP_TOOL_TIMEOUT,
                          IF method = "listTools" THEN ListOperation
                                                  ELSE CallOperation(name)),
                 out |-> Pending, method |-> method]]
         /\ UNCHANGED <<client, transport, connected, transports, conn,
                        disc>>

\* The continuation of listTools/callTool once the race w has settled.
CallResume(s, w) ==
    call' = [call EXCEPT ![s] =
               [@ EXCEPT !.pc = "settled", !.w = w,
                         !.out = IF w.out.kind = "resolved"
                                 THEN Resolved(
                                        IF call[s].method = "listTools"
                                        THEN ListResult(w.out.val)
                                        ELSE CallResult(w.out.val))
                                 ELSE w.out]]

\* The server answers request r (o resolved), or the request fails. It
\* resumes the call that awaits it, if any.
ResponseArrives(r, o) ==
    /\ r \in DOMAIN requests
    /\ o.kind = "resolved" =>
          /\ Open(requests[r].via)
          /\ o.val \in (IF requests[r].method = "listTools"
                        THEN ListResponses ELSE CallResponses)
    /\ requests' = Without(requests, r)
    /\ LET s == requests[r].owner
       IN  IF call[s].pc = "awaiting" /\ call[s].ref = r
           THEN CallResume(s, RaceOnPromise(call[s].w, o))
           ELSE UNCHANGED call
    /\ UNCHANGED <<client, transport, connected, transports, conn, disc>>
    /\ UNCHANGED <<retryVars, timeoutVars, zreadVars, callerVars, httpVars>>

\* The per-call timer fires while listTools/callTool awaits the race.
CallTimerFires(s) ==
    /\ call[s].pc = "awaiting"
    /\ call[s].w.timer = "armed"
    /\ CallResume(s, RaceOnTimer(call[s].w))
    /\ UNCHANGED <<client, transport, connected, transports, requests,
                   conn, disc>>
    /\ UNCHANGED <<retryVars, timeoutVars, zreadVars, callerVars, httpVars>>

\* disconnect(), up to its await: with a transport, close() is called and
\* awaited; without one the fields are reset at once.
DisconnectStart(s) ==
    IF transport[s] # 0
    THEN /\ transports' = [transports EXCEPT ![transport[s]].closing = TRUE]
         /\ disc' = [disc EXCEPT ![s] =
                [IdleSlot EXCEPT !.pc = "awaiting", !.ref = transport[s],
                                 !.method = "disconnect"]]
         /\ UNCHANGED <<client, transport, connected, requests, conn, call>>
    ELSE /\ client' = [client EXCEPT ![s] = 0]
         /\ connected' = [connected EXCEPT ![s] = FALSE]
         /\ disc' = [disc EXCEPT ![s] =
                Settled([IdleSlot EXCEPT !.method = "disconnect"],
                        Resolved(NullValue))]
         /\ UNCHANGED <<transport, transports, requests, conn, call>>

\* transport.close() settles and disconnect resumes: when it resolved, the
\* three fields are reset; when it rejected, disconnect rethrows.
CloseSettles(s, ok) ==
    /\ disc[s].pc = "awaiting"
    /\ transports' = Collect([transports EXCEPT
                         ![disc[s].ref].closing = FALSE,
                         ![disc[s].ref].closed = IF ok THEN TRUE ELSE @])
    /\ IF ok
       THEN /\ transport' = [transport EXCEPT ![s] = 0]
            /\ client' = [client EXCEPT ![s] = 0]
            /\ connected' = [connected EXCEPT ![s] = FALSE]
            /\ disc' = [disc EXCEPT ![s] = Settled(@, Resolved(NullValue))]
       ELSE /\ disc' = [disc EXCEPT ![s] = Settled(@, Rejected(CloseError))]
            /\ UNCHANGED <<transport, client, connected>>
    /\ UNCHANGED <<requests, conn, call>>
    /\ UNCHANGED <<retryVars, timeoutVars, zreadVars, callerVars, httpVars>>

---------------------------------------------------------------------------
(* An arbitrary caller of one McpClientWrapper: it may invoke a method    *)
(* whenever its previous invocation of that method has settled.            *)

UConnect(s, serverType) ==
    /\ s \in FreeSessions
    /\ conn[s].pc # "awaiting"
    /\ ops < MaxOps
    /\ ConnectStart(s, serverType)
    /\ ops' = ops + 1
    /\ UNCHANGED <<retryVars, timeoutVars, zreadVars, httpVars>>

UCall(s, method, name) ==
    /\ s \in FreeSessions
    /\ call[s].pc # "awaiting"
    /\ ops < MaxOps
    /\ CallStart(s, method, name)
    /\ ops' = ops + 1
    /\ UNCHANGED <<retryVars, timeoutVars, zreadVars, httpVars>>

UDisconnect(s) ==
    /\ s \in FreeSessions
    /\ disc[s].pc # "awaiting"
    /\ ops < MaxOps
    /\ DisconnectStart(s)
    /\ ops' = ops + 1
    /\ UNCHANGED <<retryVars, timeoutVars, zreadVars, httpVars>>

---------------------------------------------------------------------------
(* callZRead(apiKey, method, args) *)

ToolName(method) ==
    IF method = "search_doc" THEN "zai.zread.search_doc"
                             ELSE "zai.zread.get_repo_structure"

\* new Error(`ZRead ${method} failed: ${JSON.stringify(result.content)}`)
ZReadError(method, content) ==
    [kind |-> "ZReadFailed", method |-> method, content |-> content]

\* connectToServer(McpServerType.Zread, apiKey): a new wrapper, and its
\* connect up to the await.
ZStart(s, method) ==
    /\ s \in ZSessions
    /\ zpc[s] = "init"
    /\ ConnectStart(s, "Zread")
    /\ zpc' = [zpc EXCEPT ![s] = "connecting"]
    /\ zmethod' = [zmethod EXCEPT ![s] = method]
    /\ UNCHANGED <<zresult, zout, retryVars, timeoutVars, callerVars, httpVars>>

\* Faulty variant: a failure of connect is replaced by an error of callZRead.
ZConnectedWrapsError(s) ==
    /\ zpc[s] = "connecting"
    /\ conn[s].pc = "settled"
    /\ IF conn[s].out.kind = "resolved"
       THEN /\ CallStart(s, "callTool", ToolName(zmethod[s]))
            /\ zpc' = [zpc EXCEPT ![s] = "calling"]
            /\ UNCHANGED zout
       ELSE /\ zpc' = [zpc EXCEPT ![s] = "rejected"]
            /\ zout' = [zout EXCEPT ![s] =
                           Rejected([kind |-> "ConnectionFailed"])]
            /\ UNCHANGED sessionVars
    /\ UNCHANGED <<zmethod, zresult, retryVars, timeoutVars, callerVars, httpVars>>

\* connect has settled: callZRead goes on to client.callTool(toolName, args),
\* or rejects with connect's error.
ZConnected(s) ==
    /\ zpc[s] = "connecting"
    /\ conn[s].pc = "settled"
    /\ IF conn[s].out.kind = "resolved"
       THEN /\ CallStart(s, "callTool", ToolName(zmethod[s]))
            /\ zpc' = [zpc EXCEPT ![s] = "calling"]
            /\ UNCHANGED zout
       ELSE /\ zpc' = [zpc EXCEPT ![s] = "rejected"]
            /\ zout' = [zout EXCEPT ![s] = conn[s].out]
            /\ UNCHANGED sessionVars
    /\ UNCHANGED <<zmethod, zresult, retryVars, timeoutVars, callerVars, httpVars>>

\* Faulty variant: client.disconnect() issued without awaiting callTool.
ZCalledNoAwait(s) ==
    /\ zpc[s] = "calling"
    /\ DisconnectStart(s)
    /\ zresult' = [zresult EXCEPT ![s] =
                      IF call[s].out.kind = "resolved" THEN call[s].out.val
                      ELSE [content |-> "c1", isError |-> "undefined",
                            meta |-> "m"]]
    /\ zpc' = [zpc EXCEPT ![s] = "disconnecting"]
    /\ UNCHANGED <<zout, zmethod, retryVars, timeoutVars, callerVars, httpVars>>

\* callTool has settled: callZRead keeps the result and goes on to
\* client.disconnect(), or rejects with callTool's error.
ZCalled(s) ==
    /\ zpc[s] = "calling"
    /\ call[s].pc = "settled"
    /\ IF call[s].out.kind = "resolved"
       THEN /\ DisconnectStart(s)
            /\ zresult' = [zresult EXCEPT ![s] = call[s].out.val]
            /\ zpc' = [zpc EXCEPT ![s] = "disconnecting"]
            /\ UNCHANGED zout
       ELSE /\ zpc' = [zpc EXCEPT ![s] = "rejected"]
            /\ zout' = [zout EXCEPT ![s] = call[s].out]
            /\ UNCHANGED <<sessionVars, zresult>>
    /\ UNCHANGED <<zmethod, retryVars, timeoutVars, callerVars, httpVars>>

\* if (result.isError) throw new Error(...); return result.content
ZReadOutcome(method, result) ==
    IF result.isError = "true"
    THEN Rejected(ZReadError(method, result.content))
    ELSE Resolved(result.content)

\* disconnect has settled: callZRead throws when result.isError is truthy
\* and returns result.content otherwise; it rejects with disconnect's error.
ZDisconnected(s) ==
    /\ zpc[s] = "disconnecting"
    /\ disc[s].pc = "settled"
    /\ LET o == IF disc[s].out.kind = "rejected" THEN disc[s].out
                ELSE ZReadOutcome(zmethod[s], zresult[s])
       IN  /\ zout' = [zout EXCEPT ![s] = o]
           /\ zpc' = [zpc EXCEPT ![s] = o.kind]
    /\ UNCHANGED <<sessionVars, zmethod, zresult, retryVars, timeoutVars,
                   callerVars, httpVars>>

---------------------------------------------------------------------------
(* withRetry(fn, retryCount) *)

MaxRetry == 6                    \* largest retryCount tried
RetryCounts == (0 - 1)..MaxRetry

\* What one invocation of fn may settle with.
FnValues == {"v1", "v2"}
FnErrors == {HttpError(401, "Unauthorized"), NotConnectedError,
             TimeoutError(ListOperation, MCP_TOOL_TIMEOUT)}

Pow2(n) == IF n <= 0 THEN 1 ELSE 2 ^ n

\* Faulty variant: the loop stops one attempt early.
LoopContinuesStrict(a, n) == a < n

\* The loop condition: attempt <= retryCount
LoopContinues(a, n) == a <= n

\* Faulty variant: a delay is awaited after the last attempt too.
DelaysAfterLast(a, n) == a <= n

\* Faulty variant: the backoff is never awaited.
DelaysNever(a, n) == a < 0

\* The condition of the delay: attempt < retryCount
Delays(a, n) == a < n

\* Faulty variant: the backoff is not capped.
BackoffDelayUncapped(a) == 100 * Pow2(a)

\* Math.min(100 * Math.pow(2, attempt), 2000)
BackoffDelay(a) == Min(100 * Pow2(a), 2000)

\* Faulty variant: the first error is kept.
CaughtFirst(last, error) == IF last = NullValue THEN error ELSE last

\* lastError = error as Error
Caught(last, error) == error

\* Faulty variant: an authentication failure ends the loop.
NextAttemptAuthAware(a, n, error) ==
    IF error.kind = "HttpError" /\ error.status = 401 THEN n + 1 ELSE a + 1

\* attempt++ : the loop goes on to the next attempt whatever was caught.
NextAttempt(a, n, error) == a + 1

\* The loop is entered: fn() is invoked and awaited.
RetryInvoke ==
    /\ rpc = "loop"
    /\ LoopContinues(attempt, retryCount)
    /\ rpc' = "awaitFn"
    /\ calls' = calls + 1
    /\ running' = running + 1
    /\ UNCHANGED <<retryCount, attempt, lastError, delays, outcomes, rresult>>
    /\ UNCHANGED <<timeoutVars, sessionVars, zreadVars, callerVars, httpVars>>

\* fn() resolves: return await fn()
FnResolves(v) ==
    /\ rpc = "awaitFn"
    /\ rpc' = "resolved"
    /\ rresult' = Resolved(v)
    /\ running' = running - 1
    /\ outcomes' = Append(outcomes, Resolved(v))
    /\ UNCHANGED <<retryCount, attempt, lastError, calls, delays>>
    /\ UNCHANGED <<timeoutVars, sessionVars, zreadVars, callerVars, httpVars>>

\* fn() rejects: the catch block keeps the error and, when attempts remain,
\* starts the backoff timer; otherwise the loop goes on at once.
FnRejects(e) ==
    /\ rpc = "awaitFn"
    /\ lastError' = Caught(lastError, e)
    /\ running' = running - 1
    /\ outcomes' = Append(outcomes, Rejected(e))
    /\ IF Delays(attempt, retryCount)
       THEN /\ delays' = Append(delays, BackoffDelay(attempt))
            /\ rpc' = "sleeping"
            /\ UNCHANGED attempt
       ELSE /\ attempt' = NextAttempt(attempt, retryCount, e)
            /\ rpc' = "loop"
            /\ UNCHANGED delays
    /\ UNCHANGED <<retryCount, calls, rresult>>
    /\ UNCHANGED <<timeoutVars, sessionVars, zreadVars, callerVars, httpVars>>

\* The backoff timer fires: the loop goes on to the next attempt.
BackoffElapsed ==
    /\ rpc = "sleeping"
    /\ attempt' = NextAttempt(attempt, retryCount, lastError)
    /\ rpc' = "loop"
    /\ UNCHANGED <<retryCount, lastError, calls, running, delays, outcomes,
                   rresult>>
    /\ UNCHANGED <<timeoutVars, sessionVars, zreadVars, callerVars, httpVars>>

\* The loop is left: throw lastError
RetryExhausted ==
    /\ rpc = "loop"
    /\ ~LoopContinues(attempt, retryCount)
    /\ rpc' = "rejected"
    /\ rresult' = Rejected(lastError)
    /\ UNCHANGED <<retryCount, attempt, lastError, calls, running, delays,
                   outcomes>>
    /\ UNCHANGED <<timeoutVars, sessionVars, zreadVars, callerVars, httpVars>>

---------------------------------------------------------------------------
(* withTimeout on its own *)

Operations == {ConnectOperation("Vision"), ConnectOperation("Zread"),
               ListOperation, CallOperation(ToolName("search_doc")),
               CallOperation(ToolName("get_repo_structure"))}
Deadlines == {MCP_CONNECTION_TIMEOUT, MCP_TOOL_TIMEOUT}
PromiseOutcomes ==
    {Resolved(v) : v \in {"v1", "v2"}} \cup
    {Rejected(e) : e \in {RemoteError, HandshakeError}}

\* The wrapped promise settles.
PromiseSettles(o) ==
    /\ wt.timer # "none"
    /\ wop = Pending
    /\ wop' = o
    /\ wt' = RaceOnPromise(wt, o)
    /\ UNCHANGED <<retryVars, sessionVars, zreadVars, callerVars, httpVars>>

\* The timer of the race fires.
TimerFires ==
    /\ wt.timer = "armed"
    /\ wt' = RaceOnTimer(wt)
    /\ UNCHANGED <<wop, retryVars, sessionVars, zreadVars, callerVars, httpVars>>

---------------------------------------------------------------------------
(* callHttpTool(options) *)

(* A text (a JavaScript string) is a sequence of characters, and the      *)
(* string methods callHttpTool uses are the operators below.               *)

\* text.includes(pat)
includes(text, pat) ==
    \E i \in 1..(Len(text) - Len(pat) + 1) :
        SubSeq(text, i, i + Len(pat) - 1) = pat

\* text.startsWith(pat)
startsWith(text, pat) ==
    Len(text) >= Len(pat) /\ SubSeq(text, 1, Len(pat)) = pat

\* text.slice(n)
slice(text, n) == SubSeq(text, n + 1, Len(text))

WhiteSpace == {" ", "\n", "\r", "\t"}

\* text.trim()
RECURSIVE trim(_)
trim(text) ==
    IF text = <<>> THEN text
    ELSE IF text[1] \in WhiteSpace THEN trim(Tail(text))
    ELSE IF text[Len(text)] \in WhiteSpace
         THEN trim(SubSeq(text, 1, Len(text) - 1))
    ELSE text

\* text.split('\n')
RECURSIVE split(_)
split(text) ==
    IF \A i \in 1..Len(text) : text[i] # "\n" THEN <<text>>
    ELSE LET i == CHOOSE j \in 1..Len(text) :
                     text[j] = "\n" /\ \A k \in 1..(j - 1) : text[k] # "\n"
         IN  <<SubSeq(text, 1, i - 1)>> \o split(SubSeq(text, i + 1, Len(text)))

(* JSON values, as JavaScript holds them: the type, and the boolean, the  *)
(* number, the characters or the members (key and value) of the value.     *)
JNull == [t |-> "null", b |-> FALSE, n |-> 0, s |-> <<>>, m |-> <<>>]
JBool(b) == [JNull EXCEPT !.t = "bool", !.b = b]
JNum(n) == [JNull EXCEPT !.t = "num", !.n = n]
JStr(chars) == [JNull EXCEPT !.t = "str", !.s = chars]
JArr(items) == [JNull EXCEPT !.t = "arr", !.m = items]
JObj(members) == [JNull EXCEPT !.t = "obj", !.m = members]
Member(key, value) == [k |-> key, val |-> value]

\* The truthiness of a value: json && ...
Truthy(j) ==
    CASE j.t \in {"null", "undefined"} -> FALSE
      [] j.t = "bool" -> j.b
      [] j.t = "num" -> j.n # 0
      [] j.t = "str" -> j.s # <<>>
      [] OTHER -> TRUE

\* The JSON documents of the model: text and the value it denotes.
JsonDocs ==
    {[text |-> <<"{", "\"", "r", "e", "s", "u", "l", "t", "\"", ":", "{",
                 "\"", "o", "k", "\"", ":", "t", "r", "u", "e", "}", "}">>,
      value |->            \* {"result":{"ok":true}}
        JObj(<<Member("result", JObj(<<Member("ok", JBool(TRUE))>>))>>)],
     [text |-> <<"{", "\"", "r", "e", "s", "u", "l", "t", "\"", ":", "n",
                 "u", "l", "l", "}">>,
      value |->            \* {"result":null}
        JObj(<<Member("result", JNull)>>)],
     [text |-> <<"{", "\"", "a", "\"", ":", "1", "}">>,
      value |->            \* {"a":1}
        JObj(<<Member("a", JNum(1))>>)],
     [text |-> <<"n", "u", "l", "l">>,
      value |->            \* null
        JNull],
     [text |-> <<"{", "\"", "n", "o", "t", "e", "\"", ":", "\"", "d", "a",
                 "t", "a", ":", "1", "\"", "}">>,
      value |->            \* {"note":"data:1"}
        JObj(<<Member("note", JStr(<<"d", "a", "t", "a", ":", "1">>))>>)],
     [text |-> <<"0">>,
      value |->            \* 0
        JNum(0)],
     [text |-> <<"\"", "o", "k", "\"">>,
      value |->            \* "ok"
        JStr(<<"o", "k">>)],
     [text |-> <<"{", "\"", "r", "e", "s", "u", "l", "t", "\"", ":", "f",
                 "a", "l", "s", "e", "}">>,
      value |->            \* {"result":false}
        JObj(<<Member("result", JBool(FALSE))>>)],
     [text |-> <<"[", "\"", "r", "e", "s", "u", "l", "t", "\"", "]">>,
      value |->            \* ["result"]
        JArr(<<Member("0", JStr(<<"r", "e", "s", "u", "l", "t">>))>>)]}

SyntaxError == [kind |-> "SyntaxError"]

\* JSON.parse(text): the value of the document, surrounding white space
\* ignored, or a SyntaxError thrown.
JSONparse(text) ==
    LET m == {d \in JsonDocs : d.text = trim(text)}
    IN  IF m = {} THEN [ok |-> FALSE, err |-> SyntaxError]
        ELSE [ok |-> TRUE, value |-> (CHOOSE d \in m : TRUE).value]

\* JSON.stringify(value)
JSONstringify(value) == (CHOOSE d \in JsonDocs : d.value = value).text

\* new Error('No data found in SSE response')
MalformedStream ==
    [kind |-> "Error", message |-> "No data found in SSE response"]
\* What fetch and response.text() reject with.
NetworkError == [kind |-> "TypeError", message |-> "fetch failed"]
BodyError == [kind |-> "TypeError", message |-> "body stream failed"]

\* 'event:'
EventPrefix ==
    <<"e", "v", "e", "n", "t", ":">>

\* 'data:'
DataPrefix ==
    <<"d", "a", "t", "a", ":">>

\* Faulty variant: a result member that is falsy does not count.
HasResultTruthy(j) ==
    /\ j.t = "obj"
    /\ \E i \in 1..Len(j.m) : j.m[i].k = "result" /\ Truthy(j.m[i].val)

\* json && typeof json === 'object' && 'result' in json
HasResult(j) ==
    /\ Truthy(j)
    /\ j.t \in {"obj", "arr"}
    /\ IF j.t = "arr" THEN FALSE       \* the keys of an array are indices
       ELSE \E i \in 1..Len(j.m) : j.m[i].k = "result"

\* json.result
ResultOf(j) == j.m[CHOOSE i \in 1..Len(j.m) : j.m[i].k = "result"].val

\* The try/catch around JSON.parse: the result member of a parsed object
\* that has one, else the parsed value, else the text as it is.
Decode(text) ==
    LET p == JSONparse(text)
    IN  IF ~p.ok THEN JStr(text)
        ELSE IF HasResult(p.value) THEN ResultOf(p.value)
        ELSE p.value

\* text.includes('event:') || text.includes('data:')
IsSse(text) == includes(text, EventPrefix) \/ includes(text, DataPrefix)

\* The lines of the text for which line.startsWith('data:') holds.
DataLines(text) ==
    SelectSeq(split(text), LAMBDA line : startsWith(line, DataPrefix))

\* Faulty variant: without a data line the text is returned as it is.
SseNoDataAsText(text) == Resolved(JStr(text))

\* The loop found no data line: throw new Error('No data found ...')
SseNoData(text) == Rejected(MalformedStream)

\* Faulty variant: a data line that is not JSON is skipped.
SseResultFirstValid(text) ==
    LET lines == DataLines(text)
        valid == SelectSeq(lines,
                    LAMBDA line : JSONparse(trim(slice(line, 5))).ok)
    IN  IF lines = <<>> THEN SseNoData(text)
        ELSE IF valid = <<>> THEN Resolved(JStr(trim(slice(lines[1], 5))))
        ELSE Resolved(Decode(trim(slice(valid[1], 5))))

\* The SSE branch: the first data line, line.slice(5).trim(), decoded.
SseResult(text) ==
    LET lines == DataLines(text)
    IN  IF lines = <<>> THEN SseNoData(text)
        ELSE Resolved(Decode(trim(slice(lines[1], 5))))

\* What callHttpTool makes of the text of a successful response.
ParseBody(text) ==
    IF IsSse(text) THEN [path |-> "sse", out |-> SseResult(text)]
    ELSE [path |-> "json", out |-> Resolved(Decode(text))]

(* The responses of the server. *)

\* 'event: message\ndata: '
SseHead ==
    <<"e", "v", "e", "n", "t", ":", " ", "m", "e", "s", "s", "a", "g", "e",
      "\n", "d", "a", "t", "a", ":", " ">>

\* the blank line that ends an event
SseEnd ==
    <<"\n", "\n">>

\* The document x answered as one JSON document, and as one SSE event.
PlainBody(x) == x
SseBody(x) == SseHead \o x \o SseEnd

\* 'event: message\n\n'
BodyEventOnly ==
    <<"e", "v", "e", "n", "t", ":", " ", "m", "e", "s", "s", "a", "g", "e",
      "\n", "\n">>

\* 'plain text'
BodyPlainText ==
    <<"p", "l", "a", "i", "n", " ", "t", "e", "x", "t">>

\* 'data: hello'
BodyDataText ==
    <<"d", "a", "t", "a", ":", " ", "h", "e", "l", "l", "o">>

\* ' data: null'
BodyIndentedData ==
    <<" ", "d", "a", "t", "a", ":", " ", "n", "u", "l", "l">>

\* 'data: {"a":1}\ndata: null\n\n'
BodyTwoData ==
    <<"d", "a", "t", "a", ":", " ", "{", "\"", "a", "\"", ":", "1", "}",
      "\n", "d", "a", "t", "a", ":", " ", "n", "u", "l", "l", "\n", "\n">>

\* ''
BodyEmpty ==
    <<>>

\* 'data:'
BodyDataEmpty ==
    <<"d", "a", "t", "a", ":">>

\* ': ping\n\n'
BodyComment ==
    <<":", " ", "p", "i", "n", "g", "\n", "\n">>

\* 'event: message\r\ndata: {"result":null}\r\n\r\n'
BodyCrlf ==
    <<"e", "v", "e", "n", "t", ":", " ", "m", "e", "s", "s", "a", "g", "e",
      "\r", "\n", "d", "a", "t", "a", ":", " ", "{", "\"", "r", "e", "s",
      "u", "l", "t", "\"", ":", "n", "u", "l", "l", "}", "\r", "\n", "\r",
      "\n">>

\* 'data: hello\ndata: {"a":1}\n\n'
BodyTextThenJson ==
    <<"d", "a", "t", "a", ":", " ", "h", "e", "l", "l", "o", "\n", "d",
      "a", "t", "a", ":", " ", "{", "\"", "a", "\"", ":", "1", "}", "\n",
      "\n">>

SpecialBodies ==
    {BodyEventOnly, BodyPlainText, BodyDataText, BodyIndentedData,
     BodyTwoData, BodyTextThenJson, BodyEmpty, BodyDataEmpty, BodyComment,
     BodyCrlf}

HttpBodies ==
    {PlainBody(d.text) : d \in JsonDocs} \cup {SseBody(d.text) : d \in JsonDocs}
      \cup SpecialBodies

StatusText(status) ==
    CASE status = 200 -> "OK"
      [] status = 401 -> "Unauthorized"
      [] status = 429 -> "Too Many Requests"
      [] OTHER -> "Internal Server Error"
Responses ==
    {[status |-> st, statusText |-> StatusText(st), body |-> b] :
        st \in {200, 401, 429, 500}, b \in HttpBodies}

\* options.body: left out, an object, or the number 0.
Undefined == [JNull EXCEPT !.t = "undefined"]
OptionBodies == {Undefined, JObj(<<Member("a", JNum(1))>>), JNum(0)}

\* Faulty variant: only server errors count as failures.
ResponseOkBelow500(response) == response.status < 500

\* response.ok
ResponseOk(response) == response.status \in 200..299

\* callHttpTool up to its first await: fetch is called, with POST and the
\* serialised body when options.body is truthy, with GET otherwise.
HttpCall ==
    /\ hpc = "init"
    /\ hreq' = IF Truthy(hbody)
               THEN [method |-> "POST", hasBody |-> TRUE,
                     body |-> JSONstringify(hbody)]
               ELSE [method |-> "GET", hasBody |-> FALSE, body |-> <<>>]
    /\ fetches' = fetches + 1
    /\ hpc' = "fetching"
    /\ UNCHANGED <<hbody, hresp, hpath, hout, reads>>
    /\ UNCHANGED <<retryVars, timeoutVars, sessionVars, zreadVars, callerVars>>

\* fetch resolves: a response that is not ok is thrown as an HTTP error,
\* the text of any other one is asked for.
FetchResolves(response) ==
    /\ hpc = "fetching"
    /\ hresp' = response
    /\ IF ~ResponseOk(response)
       THEN /\ hout' = Rejected(HttpError(response.status,
                                          response.statusText))
            /\ hpc' = "done"
            /\ UNCHANGED reads
       ELSE /\ reads' = reads + 1
            /\ hpc' = "reading"
            /\ UNCHANGED hout
    /\ UNCHANGED <<hbody, hreq, hpath, fetches>>
    /\ UNCHANGED <<retryVars, timeoutVars, sessionVars, zreadVars, callerVars>>

\* fetch rejects: callHttpTool rejects with the same error.
FetchRejects ==
    /\ hpc = "fetching"
    /\ hout' = Rejected(NetworkError)
    /\ hpc' = "done"
    /\ UNCHANGED <<hbody, hreq, hresp, hpath, fetches, reads>>
    /\ UNCHANGED <<retryVars, timeoutVars, sessionVars, zreadVars, callerVars>>

\* response.text() resolves: the text is parsed and the result returned.
TextResolves ==
    /\ hpc = "reading"
    /\ LET r == ParseBody(hresp.body)
       IN  hpath' = r.path /\ hout' = r.out
    /\ hpc' = "done"
    /\ UNCHANGED <<hbody, hreq, hresp, fetches, reads>>
    /\ UNCHANGED <<retryVars, timeoutVars, sessionVars, zreadVars, callerVars>>

\* response.text() rejects: callHttpTool rejects with the same error.
TextRejects ==
    /\ hpc = "reading"
    /\ hout' = Rejected(BodyError)
    /\ hpc' = "done"
    /\ UNCHANGED <<hbody, hreq, hresp, hpath, fetches, reads>>
    /\ UNCHANGED <<retryVars, timeoutVars, sessionVars, zreadVars, callerVars>>

---------------------------------------------------------------------------
(* Specifications *)

RetryIdle ==
    /\ retryCount = 0 /\ attempt = 0 /\ lastError = NullValue
    /\ rpc = "idle" /\ calls = 0 /\ running = 0
    /\ delays = <<>> /\ outcomes = <<>> /\ rresult = Pending
TimeoutIdle == wt = NoRace /\ wop = Pending
SessionsIdle ==
    /\ client = [s \in Sessions |-> 0]
    /\ transport = [s \in Sessions |-> 0]
    /\ connected = [s \in Sessions |-> FALSE]
    /\ transports = <<>>
    /\ requests = <<>>
    /\ conn = [s \in Sessions |-> IdleSlot]
    /\ call = [s \in Sessions |-> IdleSlot]
    /\ disc = [s \in Sessions |-> IdleSlot]
    /\ ops = 0
HttpIdle ==
    /\ hpc = "idle" /\ hbody = Undefined /\ hresp = NullValue
    /\ hreq = [method |-> "none", hasBody |-> FALSE, body |-> <<>>]
    /\ hpath = "none" /\ hout = Pending /\ fetches = 0 /\ reads = 0
ZReadIdle ==
    /\ zpc = [s \in ZSessions |-> "init"]
    /\ zmethod = [s \in ZSessions |-> "none"]
    /\ zresult = [s \in ZSessions |-> NullValue]
    /\ zout = [s \in ZSessions |-> Pending]

Environment ==
    \/ \E t \in DOMAIN transports, res \in HandshakeResults :
          HandshakeSettles(t, res)
    \/ \E s \in Sessions : ConnectTimerFires(s)
    \/ \E r \in DOMAIN requests :
          \E o \in {Resolved(v) : v \in CallResponses \cup ListResponses}
                   \cup {Rejected(RemoteError)} : ResponseArrives(r, o)
    \/ \E s \in Sessions : CallTimerFires(s)
    \/ \E s \in Sessions, ok \in BOOLEAN : CloseSettles(s, ok)

\* callZRead calls, each on its own session.
Init == RetryIdle /\ TimeoutIdle /\ SessionsIdle /\ ZReadIdle /\ HttpIdle
Next ==
    \/ \E s \in ZSessions, m \in Methods : ZStart(s, m)
    \/ \E s \in ZSessions : ZConnected(s)
    \/ \E s \in ZSessions : ZCalled(s)
    \/ \E s \in ZSessions : ZDisconnected(s)
    \/ Environment
Spec == Init /\ [][Next]_vars

\* The same, with timers that fire and continuations that run: the event
\* loop runs a timer once its delay has passed and resumes an async function
\* once the promise it awaits has settled. Nothing makes the server answer.
SpecFair ==
    /\ Spec
    /\ \A s \in ZSessions :
          /\ WF_vars(ConnectTimerFires(s)) /\ WF_vars(CallTimerFires(s))
          /\ WF_vars(ZConnected(s)) /\ WF_vars(ZCalled(s))
          /\ WF_vars(ZDisconnected(s))

\* One session under an arbitrary caller.
NextSession ==
    \/ \E s \in FreeSessions, ty \in ServerTypes : UConnect(s, ty)
    \/ \E s \in FreeSessions : UCall(s, "listTools", "")
    \/ \E s \in FreeSessions : UCall(s, "callTool", ToolName("search_doc"))
    \/ \E s \in FreeSessions : UDisconnect(s)
    \/ Environment
SpecSession == Init /\ [][NextSession]_vars

\* The same, with timers that fire: a timer set by setTimeout is run by the
\* event loop once its delay has passed.
SpecSessionFair ==
    /\ SpecSession
    /\ \A s \in FreeSessions :
          WF_vars(ConnectTimerFires(s)) /\ WF_vars(CallTimerFires(s))

\* withRetry for every retryCount and every behaviour of fn.
InitRetry ==
    /\ retryCount \in RetryCounts
    /\ attempt = 0 /\ lastError = NullValue
    /\ rpc = "loop" /\ calls = 0 /\ running = 0
    /\ delays = <<>> /\ outcomes = <<>> /\ rresult = Pending
    /\ TimeoutIdle /\ SessionsIdle /\ ZReadIdle /\ HttpIdle
NextRetry ==
    \/ RetryInvoke
    \/ \E v \in FnValues : FnResolves(v)
    \/ \E e \in FnErrors : FnRejects(e)
    \/ BackoffElapsed
    \/ RetryExhausted
SpecRetry == InitRetry /\ [][NextRetry]_vars

\* withTimeout for every operation, deadline and behaviour of the promise.
InitTimeout ==
    /\ \E ms \in Deadlines, op \in Operations : wt = withTimeout(ms, op)
    /\ wop = Pending
    /\ RetryIdle /\ SessionsIdle /\ ZReadIdle /\ HttpIdle
NextTimeout ==
    \/ \E o \in PromiseOutcomes : PromiseSettles(o)
    \/ TimerFires
SpecTimeout == InitTimeout /\ [][NextTimeout]_vars

\* callHttpTool for every options.body and every behaviour of the server.
InitHttp ==
    /\ hpc = "init" /\ hbody \in OptionBodies /\ hresp = NullValue
    /\ hreq = [method |-> "none", hasBody |-> FALSE, body |-> <<>>]
    /\ hpath = "none" /\ hout = Pending /\ fetches = 0 /\ reads = 0
    /\ RetryIdle /\ TimeoutIdle /\ SessionsIdle /\ ZReadIdle
NextHttp ==
    \/ HttpCall
    \/ \E response \in Responses : FetchResolves(response)
    \/ FetchRejects
    \/ TextResolves
    \/ TextRejects
SpecHttp == InitHttp /\ [][NextHttp]_vars

---------------------------------------------------------------------------
(* Properties *)

ZSettled(s) == zpc[s] \in {"resolved", "rejected"}
TimedOut(o) == o.kind = "rejected" /\ o.err.kind = "Timeout"
Released(s) ==
    ~isConnected(s) /\ transport[s] = 0 /\ OpenTransports(s) = {}

\* C1: whenever callZRead has settled after its tool call settled (resolved,
\* rejected by the server, or timed out), the session it created is
\* disconnected and has no open transport.
C1_ScopedRelease ==
    \A s \in ZSessions :
        (ZSettled(s) /\ call[s].pc = "settled") => Released(s)

\* C2: a connect that failed after creating its transport leaves the session
\* disconnected, that transport closed and no longer referenced.
C2_FailedConnectReleases ==
    \A s \in Sessions :
        (conn[s].pc = "settled" /\ conn[s].out.kind = "rejected"
            /\ conn[s].ref # 0)
        => (~isConnected(s) /\ ~Open(conn[s].ref)
              /\ transport[s] # conn[s].ref)

\* C3: a listTools/callTool that failed on a connected session (remote
\* rejection or deadline) leaves the session disconnected, its transport
\* closed.
C3_FailedCallDisconnects ==
    \A s \in Sessions :
        (call[s].pc = "settled" /\ call[s].out.kind = "rejected"
            /\ call[s].out.err # NotConnectedError)
        => Released(s)

\* C4: listTools/callTool invoked while the session is not connected settles
\* at once with the NotConnected error, sends no request and changes no
\* field of the session, after any history of connects and disconnects.
C4_NotConnectedFails ==
    [][\A s \in Sessions :
          (call[s].pc # "awaiting" /\ call'[s] # call[s] /\ ~isConnected(s))
          => /\ call'[s].pc = "settled"
             /\ call'[s].out = Rejected(NotConnectedError)
             /\ requests' = requests
             /\ transports' = transports
             /\ client'[s] = client[s]
             /\ transport'[s] = transport[s]
             /\ connected'[s] = connected[s]]_vars

\* A call failed with NotConnected on a session whose connect had failed
\* after creating the client, and one on a session that was disconnected.
C4_Witness ==
    \E s \in Sessions :
        /\ call[s].pc = "settled"
        /\ call[s].out = Rejected(NotConnectedError)
        /\ conn[s].pc = "settled" /\ conn[s].out.kind = "rejected"
        /\ client[s] # 0

Failures == {i \in 1..Len(outcomes) : outcomes[i].kind = "rejected"}
Successes == {i \in 1..Len(outcomes) : outcomes[i].kind = "resolved"}
RetrySettled == rpc \in {"resolved", "rejected"}

\* C5: for retryCount >= 0, fn is invoked min(k, retryCount + 1) times, k the
\* first attempt that succeeds; that attempt's value is returned and no
\* invocation follows it.
C5_AttemptCount ==
    retryCount >= 0 =>
        /\ calls <= retryCount + 1
        /\ \A i \in Successes : i = calls /\ rresult = outcomes[i]
        /\ rpc = "resolved" => Successes = {calls}
        /\ rpc = "rejected" =>
              Successes = {} /\ Len(outcomes) = calls
                /\ calls = retryCount + 1
        /\ (retryCount = 0 /\ RetrySettled) => calls = 1

\* retryCount = 2, two failures, then a success: three invocations.
C5_Witness ==
    /\ retryCount = 2 /\ rpc = "resolved" /\ calls = 3
    /\ Failures = {1, 2}
    /\ rresult = Resolved("v2")

\* C6: the delay after the failure of attempt i (0-based, i < retryCount) is
\* min(100 * 2^i, 2000): 100, 200, 400, 800, 1600, 2000, 2000, ...; no delay
\* precedes the first attempt, follows the last failure or follows a success.
C6_BackoffDelays ==
    retryCount >= 0 =>
        /\ \A i \in 1..Len(delays) :
              delays[i] = (IF i <= 5 THEN 100 * 2 ^ (i - 1) ELSE 2000)
        /\ Len(delays) = Min(Cardinality(Failures), retryCount)
        /\ rpc \in {"awaitFn", "resolved"} => Len(delays) = calls - 1
        /\ rpc = "rejected" => Len(delays) = retryCount

\* Seven failures under retryCount = 6: the sixth delay is capped.
C6_Witness ==
    /\ retryCount = 6 /\ rpc = "rejected"
    /\ delays = <<100, 200, 400, 800, 1600, 2000>>

\* C7: when every attempt failed, withRetry rejects with the error of the
\* last attempt, as raised.
C7_LastErrorVerbatim ==
    (retryCount >= 0 /\ rpc = "rejected") =>
        /\ Len(outcomes) = retryCount + 1
        /\ rresult = outcomes[Len(outcomes)]

\* The last error differs from the first one.
C7_Witness ==
    /\ retryCount >= 1 /\ rpc = "rejected"
    /\ outcomes[1] # outcomes[Len(outcomes)]

\* C8: whatever the kind of the error an attempt raised, a failure with
\* retries left is followed by the backoff and another attempt, and
\* exhaustion comes after retryCount + 1 attempts with the last error.
C8_BlindToErrorKind ==
    retryCount >= 0 =>
        /\ \A i \in Failures :
              i <= retryCount =>
                 /\ Len(delays) >= i
                 /\ calls > i \/ rpc \in {"sleeping", "loop"}
        /\ rpc = "rejected" =>
              calls = retryCount + 1 /\ rresult = outcomes[calls]

\* An HTTP call answering 401 every time under retryCount = 2.
C8_Witness ==
    /\ retryCount = 2 /\ rpc = "rejected" /\ calls = 3
    /\ \A i \in 1..3 : outcomes[i] = Rejected(HttpError(401, "Unauthorized"))
    /\ rresult = Rejected(HttpError(401, "Unauthorized"))

\* C9: when the timer fires before the promise has settled, withTimeout
\* rejects with the Timeout error of its operation and deadline, and the
\* outcome of withTimeout, once set, never changes.
C9_TimeoutFinal ==
    [][/\ (wop = Pending /\ wt.timer = "armed" /\ wt'.timer = "fired")
            => wt'.out = Rejected(TimeoutError(wt.operation, wt.timeoutMs))
       /\ wt.out # Pending => wt'.out = wt.out]_vars

\* The promise resolved after the deadline had rejected the race.
C9_Witness ==
    /\ wt.out = Rejected(TimeoutError(CallOperation(ToolName("search_doc")),
                                      MCP_TOOL_TIMEOUT))
    /\ wop.kind = "resolved"

\* C10: once a call has been rejected by its deadline, the work it wrapped
\* is no longer in flight: the request is not awaiting its response, the
\* handshake is not pending and its transport is not open.
C10_TimeoutStopsWork ==
    \A s \in Sessions :
        /\ (call[s].pc = "settled" /\ TimedOut(call[s].out))
              => call[s].ref \notin DOMAIN requests
        /\ (conn[s].pc = "settled" /\ TimedOut(conn[s].out))
              => ~Live(conn[s].ref)

\* C11: in every reachable state a session has at most one protocol call
\* in flight, also after a call was abandoned by its deadline and another
\* one was issued.
C11_OneInFlight ==
    \A s \in Sessions : Cardinality(InFlight(s)) <= 1

\* The method invocations of a session that are awaiting.
Awaiting(s) ==
    {m \in {"connect", "call", "disconnect"} :
        (CASE m = "connect" -> conn[s] [] m = "call" -> call[s]
           [] OTHER -> disc[s]).pc = "awaiting"}

\* C12: within one callZRead, connect, callTool and disconnect never
\* overlap: callTool is started only after connect has resolved with the
\* handshake done, and disconnect only after callTool has settled with its
\* request answered.
C12_Sequential ==
    \A s \in ZSessions :
        /\ Cardinality(Awaiting(s)) <= 1
        /\ call[s].pc # "idle" =>
              /\ conn[s].pc = "settled" /\ conn[s].out.kind = "resolved"
              /\ \A t \in OwnedTransports(s) :
                    transports[t].handshake = "ok"
        /\ disc[s].pc # "idle" =>
              /\ call[s].pc = "settled" /\ call[s].out.kind = "resolved"
              /\ InFlight(s) = {}

\* Two calls at different steps: one closing after its tool call, the
\* other one still in its tool call.
C12_Witness ==
    /\ zpc["z1"] = "disconnecting" /\ disc["z1"].pc = "awaiting"
    /\ zpc["z2"] = "calling" /\ call["z2"].pc = "awaiting"

\* All of a session: its fields, its method invocations, and the
\* transports and requests that belong to it.
SessionView(s) ==
    <<client[s], transport[s], connected[s], conn[s], call[s], disc[s],
      [t \in OwnedTransports(s) |-> transports[t]],
      [r \in InFlight(s) |-> requests[r]]>>

\* C13: two callZRead calls share no session: each has its own client and
\* transport objects, every request travels on a transport of the session
\* that issued it, and a step that changes one call's session leaves the
\* other call's session as it was.
C13_NoSharing ==
    [][\A s, t \in ZSessions :
          s # t =>
             /\ SessionView(s)' # SessionView(s)
                   => SessionView(t)' = SessionView(t)
             /\ client'[s] # 0 => client'[s] \notin {client'[t], transport'[t]}
             /\ transport'[s] # 0
                   => transport'[s] \notin {client'[t], transport'[t]}
             /\ \A r \in InFlight(s)' :
                   requests'[r].via \in OwnedTransports(s)']_vars

\* Both calls are in their tool call, each on its own connected session.
C13_Witness ==
    /\ connected["z1"] /\ connected["z2"]
    /\ client["z1"] # client["z2"] /\ transport["z1"] # transport["z2"]
    /\ InFlight("z1") # {} /\ InFlight("z2") # {}

\* C14: disconnect is idempotent and callable from any state: invoked with
\* no transport held it closes nothing and settles at once; invoked with a
\* transport held it starts the close of that transport and of nothing
\* else; and whenever a disconnect settles, the session is in the state
\* client = null, transport = null, connected = false.
C14_DisconnectIdempotent ==
    [][\A s \in Sessions :
          disc'[s] # disc[s] =>
             /\ (disc[s].pc # "awaiting" /\ transport[s] = 0)
                   => transports' = transports /\ disc'[s].pc = "settled"
             /\ disc'[s].pc = "awaiting"
                   => transports' =
                        [transports EXCEPT ![transport[s]].closing = TRUE]
             /\ disc'[s].pc = "settled"
                   => client'[s] = 0 /\ transport'[s] = 0
                        /\ ~connected'[s]]_vars

\* callZRead has settled after a tool call that resolved and a disconnect
\* that resolved.
ZCompleted(s) ==
    /\ ZSettled(s)
    /\ zresult[s] # NullValue
    /\ disc[s].pc = "settled" /\ disc[s].out.kind = "resolved"

\* C15: a tool result with isError = true is surfaced as data: callZRead
\* resolves, and the caller sees both the content and the isError flag.
C15_ErrorAsData ==
    \A s \in ZSessions :
        (ZCompleted(s) /\ zresult[s].isError = "true")
        => /\ zpc[s] = "resolved"
           /\ zout[s] = Resolved([content |-> zresult[s].content,
                                  isError |-> "true"])

\* The errors of a connect to a server type that has no stdio command.
UnsupportedErrors ==
    {[kind |-> "Error", message |-> m] :
        m \in {"Search is HTTP-based, not stdio",
               "Read is HTTP-based, not stdio", "Unknown server type"}}

\* C16: a connect suspends in a handshake only for the types Vision and
\* Zread; for Search, Read and unknown types it fails at once with the
\* error of that type, creates no client and no transport, sends nothing
\* and leaves the fields of the session as they were.
C16_UnsupportedFailsFirst ==
    [][\A s \in Sessions :
          (conn[s].pc # "awaiting" /\ conn'[s] # conn[s]) =>
             IF conn'[s].pc = "awaiting"
             THEN conn'[s].w.operation \in
                     {ConnectOperation("Vision"), ConnectOperation("Zread")}
             ELSE /\ conn'[s].pc = "settled"
                  /\ conn'[s].out \in {Rejected(e) : e \in UnsupportedErrors}
                  /\ conn'[s].ref = 0
                  /\ transports' = transports /\ requests' = requests
                  /\ client' = client /\ transport' = transport
                  /\ connected' = connected]_vars

\* A connect to Search failed on a session that was connected and stays so.
C16_Witness ==
    \E s \in Sessions :
        /\ conn[s].pc = "settled"
        /\ conn[s].out = Rejected([kind |-> "Error",
                 message |-> "Search is HTTP-based, not stdio"])
        /\ connected[s] /\ transport[s] # 0 /\ Open(transport[s])

HttpOk == hresp # NullValue /\ ResponseOk(hresp)
HttpDone == hpc = "done" /\ HttpOk /\ hpath # "none"
\* Some line of the text begins with pat.
LineBegins(text, pat) ==
    \E i \in 1..Len(split(text)) : startsWith(split(text)[i], pat)

\* C17: for every JSON document X, a successful response whose body is X
\* and one whose body is the SSE event 'event: message / data: X' give the
\* same result.
C17_EncodingTransparent ==
    \A d \in JsonDocs :
        (HttpDone /\ hresp.body \in {PlainBody(d.text), SseBody(d.text)})
        => /\ hout = ParseBody(PlainBody(d.text)).out
           /\ hout = ParseBody(SseBody(d.text)).out

\* C18: a body is handled as SSE only when one of its lines begins with
\* 'event:' or 'data:'; any other body is decoded as a whole, and the call
\* does not fail with 'No data found in SSE response'.
C18_SseOnlyByLinePrefix ==
    HttpDone =>
        IF LineBegins(hresp.body, EventPrefix)
              \/ LineBegins(hresp.body, DataPrefix)
        THEN hpath = "sse"
        ELSE /\ hpath = "json"
             /\ hout = Resolved(Decode(hresp.body))
             /\ hout # Rejected(MalformedStream)

\* C19: a response handled as SSE none of whose lines begins with 'data:'
\* makes the call fail with 'No data found in SSE response', and the call
\* fails with that error in no other case.
C19_NoDataFails ==
    HttpDone =>
        ((hpath = "sse" /\ ~LineBegins(hresp.body, DataPrefix))
            <=> hout = Rejected(MalformedStream))

\* The body 'event: message' followed by a blank line.
C19_Witness ==
    /\ HttpDone /\ hresp.body = BodyEventOnly
    /\ hpath = "sse" /\ hout = Rejected(MalformedStream)

\* C20: a response whose status is not 2xx makes the call fail with the
\* HTTP error of its status and status text, its body never asked for; a
\* call makes one fetch and never another.
C20_HttpErrorNoRetry ==
    /\ fetches <= 1 /\ reads <= fetches
    /\ hpc = "done" => fetches = 1
    /\ (hresp # NullValue /\ hresp.status \notin 200..299) =>
          /\ hpc = "done"
          /\ hout = Rejected(HttpError(hresp.status, hresp.statusText))
          /\ reads = 0 /\ hpath = "none"

\* A POST answered 401 Unauthorized with an SSE body.
C20_Witness ==
    /\ hpc = "done" /\ hreq.method = "POST" /\ hresp # NullValue
    /\ hresp.status = 401 /\ hresp.body = BodyEventOnly
    /\ hout = Rejected(HttpError(401, "Unauthorized"))
    /\ fetches = 1 /\ reads = 0

\* The document d was decoded: its text was the whole body on the plain
\* path, or the payload of the one data line on the SSE path.
Decoded(d) ==
    /\ HttpDone
    /\ \/ hpath = "json" /\ hresp.body = PlainBody(d.text)
       \/ hpath = "sse" /\ hresp.body = SseBody(d.text)

\* C21: on both paths, a decoded object that has a 'result' member gives
\* exactly that member's value, also when it is null or false; any other
\* decoded value (object without 'result', array, number, string, null) is
\* returned as it is.
C21_ResultUnwrapping ==
    \A d \in JsonDocs :
        Decoded(d) =>
            LET keys == {i \in 1..Len(d.value.m) : d.value.m[i].k = "result"}
            IN  IF d.value.t = "obj" /\ keys # {}
                THEN \E i \in keys : hout = Resolved(d.value.m[i].val)
                ELSE hout = Resolved(d.value)

\* The SSE event whose data is {"result":null} gave null.
C21_Witness ==
    /\ \E d \in JsonDocs :
          /\ Decoded(d) /\ hpath = "sse"
          /\ d.value = JObj(<<Member("result", JNull)>>)
    /\ hout = Resolved(JNull)

\* The first line of the text that begins with 'data:'.
FirstDataLine(text) ==
    LET lines == split(text)
        i == CHOOSE j \in 1..Len(lines) :
                /\ startsWith(lines[j], DataPrefix)
                /\ \A k \in 1..(j - 1) : ~startsWith(lines[k], DataPrefix)
    IN  lines[i]

\* C22: the result of an SSE body is that of its first 'data:' line alone:
\* when its payload is not valid JSON the trimmed payload is returned, and
\* no later line is read. A body that is not SSE and not valid JSON is
\* returned as the raw text.
C22_FirstDataLineOnly ==
    HttpDone =>
        /\ (hpath = "sse" /\ LineBegins(hresp.body, DataPrefix)) =>
              LET payload == trim(slice(FirstDataLine(hresp.body), 5))
              IN  /\ hout = ParseBody(FirstDataLine(hresp.body)).out
                  /\ ~JSONparse(payload).ok => hout = Resolved(JStr(payload))
        /\ (hpath = "json" /\ ~JSONparse(hresp.body).ok) =>
              hout = Resolved(JStr(hresp.body))

\* 'data: hello' followed by 'data: {"a":1}' gave the string 'hello'.
C22_Witness ==
    /\ HttpDone /\ hresp.body = BodyTextThenJson
    /\ hout = Resolved(JStr(<<"h", "e", "l", "l", "o">>))

\* C23: when connect or callTool inside callZRead rejects with an error,
\* callZRead rejects with that same error, which is the one the handshake,
\* the request or the timer raised.
C23_ErrorsUnchanged ==
    \A s \in ZSessions :
        /\ (zpc[s] # "connecting" /\ conn[s].pc = "settled"
              /\ conn[s].out.kind = "rejected")
           => /\ zpc[s] = "rejected" /\ zout[s] = conn[s].out
              /\ conn[s].out = conn[s].w.out
        /\ (zpc[s] # "calling" /\ call[s].pc = "settled"
              /\ call[s].out.kind = "rejected")
           => /\ zpc[s] = "rejected" /\ zout[s] = call[s].out
              /\ call[s].out = call[s].w.out

\* One call rejected with the handshake's error, the other one with the
\* timeout of its tool call.
C23_Witness ==
    /\ zpc["z1"] = "rejected" /\ zout["z1"] = Rejected(HandshakeError)
    /\ zpc["z2"] = "rejected"
    /\ zout["z2"] = Rejected(TimeoutError(
                       CallOperation(ToolName("get_repo_structure")),
                       MCP_TOOL_TIMEOUT))

\* C24: every connect, listTools and callTool eventually settles, whatever
\* the server does: while one is awaiting, its timer is armed, with the
\* 30000 ms deadline for connect and the 120000 ms deadline for listTools
\* and callTool.
C24_CallsSettle ==
    \A s \in FreeSessions :
        /\ [](conn[s].pc = "awaiting" =>
                 /\ conn[s].w.timer = "armed"
                 /\ conn[s].w.timeoutMs = 30000)
        /\ [](call[s].pc = "awaiting" =>
                 /\ call[s].w.timer = "armed"
                 /\ call[s].w.timeoutMs = 120000)
        /\ conn[s].pc = "awaiting" ~> conn[s].pc = "settled"
        /\ call[s].pc = "awaiting" ~> call[s].pc = "settled"

\* A connect and a listTools were both settled by their timers, the
\* handshake still pending and the request still unanswered.
C24_Witness ==
    \E s \in FreeSessions :
        /\ conn[s].pc = "settled" /\ conn[s].out.kind = "resolved"
        /\ call[s].pc = "settled" /\ call[s].method = "listTools"
        /\ TimedOut(call[s].out)
        /\ call[s].ref \in DOMAIN requests

\* C25: the connected flag becomes true only in the step that ends a
\* connect whose handshake succeeded before the timer fired; it becomes
\* false only in a step that leaves a disconnect resolved and the client
\* and transport fields null, and that is no step of connect, listTools or
\* callTool; a step of listTools or callTool never changes it.
C25_Transitions ==
    [][\A s \in Sessions :
          /\ (~connected[s] /\ connected'[s]) =>
                /\ conn[s].pc = "awaiting" /\ conn'[s].pc = "settled"
                /\ conn'[s].out = Resolved(NullValue)
                /\ conn[s].w.timer = "armed" /\ conn'[s].w.timer = "armed"
                /\ transports[conn[s].ref].handshake = "pending"
                /\ transports'[conn[s].ref].handshake = "ok"
          /\ (connected[s] /\ ~connected'[s]) =>
                /\ disc'[s].pc = "settled"
                /\ disc'[s].out = Resolved(NullValue)
                /\ client'[s] = 0 /\ transport'[s] = 0
                /\ conn'[s] = conn[s] /\ call'[s] = call[s]
          /\ call'[s] # call[s] => connected'[s] = connected[s]]_vars

\* A session that was connected and has been disconnected, with a tool
\* call made in between.
C25_Witness ==
    \E s \in Sessions :
        /\ ~connected[s]
        /\ conn[s].pc = "settled" /\ conn[s].out.kind = "resolved"
        /\ call[s].pc = "settled" /\ call[s].out.kind = "resolved"
        /\ disc[s].pc = "settled" /\ disc[s].out.kind = "resolved"

\* C26: a callTool whose request the server answered resolves, whatever the
\* isError flag of the response, with the content and the isError flag of
\* that response as they were sent (true, false or absent).
C26_ResultAsSent ==
    \A s \in Sessions :
        (call[s].pc = "settled" /\ call[s].method = "callTool"
            /\ call[s].w.out.kind = "resolved")
        => /\ call[s].out.kind = "resolved"
           /\ call[s].out.val.content = call[s].w.out.val.content
           /\ call[s].out.val.isError = call[s].w.out.val.isError

\* Two responses came back as sent: one with isError = true, the other
\* one without an isError flag.
C26_Witness ==
    \E s, t \in Sessions :
        /\ call[s].pc = "settled"
        /\ call[s].out = Resolved([content |-> "c1", isError |-> "true"])
        /\ call[t].pc = "settled"
        /\ call[t].out = Resolved([content |-> "c1", isError |-> "undefined"])
        /\ call[t].w.out.val.isError = "undefined"

\* C27: a connect whose timer fires before the handshake completes is
\* rejected with the timeout error and does not set the connected flag; a
\* handshake that completes after its connect has settled changes neither
\* the flag nor the settled connect; and a call that starts on a session
\* that is not connected is rejected with the NotConnected error.
C27_LateHandshake ==
    [][\A s \in Sessions :
          /\ (conn[s].pc = "awaiting" /\ conn'[s].pc = "settled"
                /\ conn'[s].w.timer = "fired")
             => /\ conn'[s].out = Rejected(TimeoutError(conn[s].w.operation,
                                                        MCP_CONNECTION_TIMEOUT))
                /\ connected'[s] = connected[s]
          /\ \A t \in OwnedTransports(s) :
                (/\ transports[t].handshake = "pending"
                 /\ ~(conn[s].pc = "awaiting" /\ conn[s].ref = t)
                 /\ t \in DOMAIN transports'
                 /\ transports'[t].handshake = "ok")
                => connected'[s] = connected[s] /\ conn'[s] = conn[s]
          /\ (call[s].pc # "awaiting" /\ call'[s] # call[s]
                /\ ~connected[s])
             => /\ call'[s].pc = "settled"
                /\ call'[s].out = Rejected(NotConnectedError)]_vars

\* The connect timed out, its handshake completed afterwards, the session
\* was never disconnected, and a call on it failed with NotConnected.
C27_Witness ==
    \E s \in Sessions :
        /\ conn[s].pc = "settled" /\ TimedOut(conn[s].out)
        /\ conn[s].ref \in DOMAIN transports
        /\ transports[conn[s].ref].owner = s
        /\ transports[conn[s].ref].handshake = "ok"
        /\ ~transports[conn[s].ref].closed
        /\ disc[s].pc = "idle"
        /\ ~connected[s]
        /\ call[s].pc = "settled"
        /\ call[s].out = Rejected(NotConnectedError)

\* C28: in every reachable state, a session whose connected flag is true
\* has a non-null client and a non-null transport, and the transport the
\* field refers to is not closed.
C28_ConnectedHasTransport ==
    \A s \in Sessions :
        connected[s] =>
            /\ client[s] # 0
            /\ transport[s] # 0
            /\ Open(transport[s])

\* C29: in every reachable state, every transport a session created and
\* that is not closed is the one its transport field refers to.
C29_OneOpenTransport ==
    \A s \in Sessions : OpenTransports(s) \subseteq {transport[s]}

\* C30: every step that settles a disconnect, resolving or rejecting,
\* leaves the session disconnected: the flag false, client and transport
\* null.
C30_DisconnectSettlesDisconnected ==
    [][\A s \in Sessions :
          (disc[s].pc = "awaiting" /\ disc'[s].pc = "settled")
          => ~connected'[s] /\ client'[s] = 0 /\ transport'[s] = 0]_vars

\* C31: a listTools or callTool that starts while a disconnect of its
\* session is still awaiting transport.close() is rejected with the
\* NotConnected error and sends no request.
C31_NoCallWhileClosing ==
    [][\A s \in Sessions :
          (disc[s].pc = "awaiting" /\ call[s].pc # "awaiting"
             /\ call'[s] # call[s])
          => /\ call'[s].pc = "settled"
             /\ call'[s].out = Rejected(NotConnectedError)
             /\ requests' = requests]_vars

\* C32: when the wrapped promise settles while the timer has not fired,
\* withTimeout settles with the outcome of the promise, its value or its own
\* error, and the timer firing afterwards leaves that outcome as it is.
C32_TransparentBeforeDeadline ==
    [][/\ (wop = Pending /\ wop' # Pending /\ wt.timer = "armed")
            => wt'.out = wop' /\ ~TimedOut(wt'.out)
       /\ (wop # Pending /\ wt.out = wop /\ wt.timer = "armed"
             /\ wt'.timer = "fired")
            => wt'.out = wop /\ wop' = wop]_vars

\* The promise rejected with its own error before the deadline, and the
\* timer has fired since.
C32_Witness ==
    /\ wop = Rejected(RemoteError)
    /\ wt.out = Rejected(RemoteError)
    /\ wt.timer = "fired"

\* C33: at most one invocation of the operation is awaiting at any time; an
\* invocation starts only from the loop, while withRetry is unsettled and
\* no invocation is awaiting, and a further invocation starts only when the
\* one before it has rejected and a backoff delay has been awaited for each
\* invocation before it; once withRetry has settled no invocation starts.
C33_OneAttemptAtATime ==
    [][/\ running <= 1 /\ running' <= 1
       /\ calls' # calls =>
            /\ calls' = calls + 1
            /\ running = 0 /\ rpc = "loop" /\ rresult = Pending
            /\ Len(outcomes) = calls /\ Len(delays) = calls
            /\ \A i \in 1..calls : outcomes[i].kind = "rejected"
       /\ rresult # Pending => calls' = calls /\ running' = 0]_vars

\* The third invocation is awaiting after two rejections and two delays.
C33_Witness ==
    /\ calls = 3 /\ running = 1 /\ rpc = "awaitFn"
    /\ Len(outcomes) = 2 /\ delays = <<100, 200>>

\* C34: for every retryCount, negative ones included, a settled withRetry
\* has invoked the operation at least once, and a rejected withRetry
\* rejects with an error that an invocation raised, never with null.
C34_AtLeastOneAttempt ==
    /\ RetrySettled => calls >= 1
    /\ rpc = "rejected" =>
          /\ rresult.kind = "rejected"
          /\ rresult.err # NullValue
          /\ \E i \in 1..Len(outcomes) : outcomes[i] = rresult

\* C35: every callZRead that has started eventually settles, when timers
\* fire and continuations run, whether or not the server ever answers the
\* handshake, the tool call or the close of the transport.
C35_ZReadSettles ==
    \A s \in ZSessions : (zpc[s] # "init") ~> ZSettled(s)

====
